---- MODULE Spec2Model ----
(***************************************************************************)
(* Model of scripts/reorganize-by-tags.py: one run of main(), which loads  *)
(* api.yaml, regroups the `paths` mapping by primary tag with              *)
(* reorganize_paths_by_tags and dumps the result to api.yaml.sorted.       *)
(*                                                                         *)
(* Python values are represented as follows.                               *)
(*   - A mapping whose key order matters (paths, a PathItem, the          *)
(*     defaultdict paths_by_tag, the OrderedDict new_paths) is a sequence  *)
(*     of records in insertion order, with distinct keys.                  *)
(*   - A path-string is the sequence of its code points, so that Python's  *)
(*     string comparison is the lexicographic order LexLess.               *)
(*   - A value found under a PathItem key is a record telling whether it   *)
(*     is a dict, whether it has a 'tags' key, and the tags sequence.      *)
(*   - None / a tag-name is a record [found, tag].                         *)
(***************************************************************************)
EXTENDS Integers, Sequences, FiniteSets, TLC

VARIABLES input_file, output_file, api_spec, paths_by_tag, new_paths, pc, error

vars == <<input_file, output_file, api_spec, paths_by_tag, new_paths, pc, error>>

----------------------------------------------------------------------------
(* Bounds of the explored inputs *)

\* longest `tags` list of a document
MaxTags == 2
\* largest number of entries of `paths`
MaxPaths == 3
\* largest number of entries of a PathItem in the scanning specification
MaxOps == 2

\* tag names: the empty string, the name that collides with the sentinel,
\* and two ordinary names
TagNames == {"", "untagged", "a", "b"}

\* path-strings as code-point sequences; <<1>> is a proper prefix of <<1, 2>>.
\* The keys of `paths` are distinct, so a document has at most three paths.
PathStrings == {<<1>>, <<1, 2>>, <<2>>}

----------------------------------------------------------------------------
(* Input values *)

NotADict == [isDict |-> FALSE, hasTags |-> FALSE, tags |-> <<>>]
DictWithoutTags == [isDict |-> TRUE, hasTags |-> FALSE, tags |-> <<>>]
Tagged(ts) == [isDict |-> TRUE, hasTags |-> TRUE, tags |-> ts]

\* values that may sit under a key of a PathItem
OpValues ==
    {NotADict, DictWithoutTags, Tagged(<<>>), Tagged(<<"b", "a">>)}
        \cup {Tagged(<<t>>) : t \in TagNames}

\* a PathItem with a single operation
OneOp(v) == <<[method |-> 1, operation |-> v]>>

\* PathItems of the grouping specification: one operation each
SimpleItems ==
    {OneOp(Tagged(<<>>))} \cup {OneOp(Tagged(<<t>>)) : t \in TagNames}

\* PathItems of the scanning specification: up to MaxOps entries
ScanItems ==
    UNION {{[k \in 1..n |-> [method |-> k, operation |-> f[k]]] :
                f \in [1..n -> OpValues]} : n \in 0..MaxOps}

TagLists == UNION {[1..n -> [name : TagNames]] : n \in 0..MaxTags}

Distinct(ps) == \A i, j \in 1..Len(ps) : i # j => ps[i].path # ps[j].path

PathLists(items, maxLen) ==
    {ps \in UNION {[1..n -> [path : PathStrings, path_spec : items]] :
                       n \in 0..maxLen} : Distinct(ps)}

EmptyDoc == [hasTags |-> FALSE, tags |-> <<>>, hasPaths |-> FALSE, paths |-> <<>>]

Docs(items, maxLen) ==
    {[hasTags |-> TRUE, tags |-> t, hasPaths |-> TRUE, paths |-> p] :
        t \in TagLists, p \in PathLists(items, maxLen)}
    \cup {[hasTags |-> FALSE, tags |-> <<>>, hasPaths |-> TRUE, paths |-> p] :
        p \in PathLists(items, maxLen)}
    \cup {[hasTags |-> TRUE, tags |-> t, hasPaths |-> FALSE, paths |-> <<>>] :
        t \in TagLists}
    \cup {EmptyDoc}

Malformed == [wellFormed |-> FALSE, doc |-> EmptyDoc]

Files(items, maxLen) ==
    {Malformed} \cup {[wellFormed |-> TRUE, doc |-> d] : d \in Docs(items, maxLen)}

NotExisting == [state |-> "absent", tags |-> <<>>, paths |-> <<>>]
Truncated == [state |-> "truncated", tags |-> <<>>, paths |-> <<>>]

----------------------------------------------------------------------------
(* reorganize_paths_by_tags *)

None == [found |-> FALSE, tag |-> ""]

\* Python truthiness of primary_tag
Truthy(t) == t.found /\ t.tag # ""

\* api_spec.get('tags', [])
GetTags(spec) == IF spec.hasTags THEN spec.tags ELSE <<>>

tag_order(spec) == [i \in 1..Len(GetTags(spec)) |-> GetTags(spec)[i].name]

\* api_spec['paths']
GetPathsDefault(spec) == [err |-> "none", items |-> spec.paths]
GetPaths(spec) ==
    IF spec.hasPaths THEN [err |-> "none", items |-> spec.paths]
    ELSE [err |-> "KeyError", items |-> <<>>]

RECURSIVE FindTag(_, _)
FindTag(path_spec, i) ==
    IF i > Len(path_spec) THEN None
    ELSE LET operation == path_spec[i].operation IN
         IF operation.isDict /\ operation.hasTags /\ operation.tags # <<>>
         THEN [found |-> TRUE, tag |-> operation.tags[1]]
         ELSE FindTag(path_spec, i + 1)

primary_tag(path_spec) == FindTag(path_spec, 1)

BucketOf(path_spec) ==
    IF Truthy(primary_tag(path_spec)) THEN primary_tag(path_spec).tag
    ELSE "untagged"

HasKey(buckets, tag) == \E k \in 1..Len(buckets) : buckets[k].tag = tag

KeyIndex(buckets, tag) == CHOOSE k \in 1..Len(buckets) : buckets[k].tag = tag

\* paths_by_tag[tag].append(pair) on a defaultdict(list)
AppendTo(buckets, tag, pair) ==
    IF HasKey(buckets, tag)
    THEN [buckets EXCEPT ![KeyIndex(buckets, tag)].list = Append(@, pair)]
    ELSE Append(buckets, [tag |-> tag, list |-> <<pair>>])

RECURSIVE ScanPaths(_, _, _)
ScanPaths(items, i, buckets) ==
    IF i > Len(items) THEN buckets
    ELSE ScanPaths(items, i + 1,
                   AppendTo(buckets, BucketOf(items[i].path_spec), items[i]))

LexLess(a, b) ==
    \E k \in 1..Len(b) :
        /\ \A m \in 1..(k - 1) : m <= Len(a) /\ a[m] = b[m]
        /\ (k > Len(a) \/ a[k] < b[k])

RECURSIVE Insert(_, _)
Insert(list, pair) ==
    IF list = <<>> THEN <<pair>>
    ELSE IF LexLess(pair.path, Head(list).path) THEN <<pair>> \o list
    ELSE <<Head(list)>> \o Insert(Tail(list), pair)

RECURSIVE SortFrom(_, _, _)
SortFrom(list, i, acc) ==
    IF i > Len(list) THEN acc ELSE SortFrom(list, i + 1, Insert(acc, list[i]))

Unsorted(list) == list
\* sorted(list, key=lambda x: x[0])
sorted(list) == SortFrom(list, 1, <<>>)

HasPath(mapping, path) == \E k \in 1..Len(mapping) : mapping[k].path = path

SetItemAppend(mapping, pair) == Append(mapping, pair)
\* new_paths[path] = path_spec on an OrderedDict
SetItem(mapping, pair) ==
    IF HasPath(mapping, pair.path)
    THEN [k \in 1..Len(mapping) |->
             IF mapping[k].path = pair.path THEN pair ELSE mapping[k]]
    ELSE Append(mapping, pair)

RECURSIVE SetItems(_, _, _)
SetItems(mapping, list, i) ==
    IF i > Len(list) THEN mapping
    ELSE SetItems(SetItem(mapping, list[i]), list, i + 1)

Emit(mapping, list) == SetItems(mapping, sorted(list), 1)

InSeq(x, s) == \E k \in 1..Len(s) : s[k] = x

RECURSIVE EmitDeclared(_, _, _, _)
EmitDeclared(order, i, buckets, mapping) ==
    IF i > Len(order) THEN mapping
    ELSE EmitDeclared(order, i + 1, buckets,
            IF HasKey(buckets, order[i])
            THEN Emit(mapping, buckets[KeyIndex(buckets, order[i])].list)
            ELSE mapping)

EmitUntaggedDropped(buckets, mapping) == mapping
EmitUntagged(buckets, mapping) ==
    IF HasKey(buckets, "untagged")
    THEN Emit(mapping, buckets[KeyIndex(buckets, "untagged")].list)
    ELSE mapping

RECURSIVE EmitUnlistedFrom(_, _, _, _)
EmitUnlistedFrom(buckets, k, order, mapping) ==
    IF k > Len(buckets) THEN mapping
    ELSE EmitUnlistedFrom(buckets, k + 1, order,
            IF ~InSeq(buckets[k].tag, order) /\ buckets[k].tag # "untagged"
            THEN Emit(mapping, buckets[k].list)
            ELSE mapping)

Reverse(s) == [k \in 1..Len(s) |-> s[Len(s) + 1 - k]]

EmitUnlistedReversed(buckets, order, mapping) ==
    EmitUnlistedFrom(Reverse(buckets), 1, order, mapping)
EmitUnlisted(buckets, order, mapping) ==
    EmitUnlistedFrom(buckets, 1, order, mapping)

\* the defaultdict built by the loop over api_spec['paths'].items()
Buckets(spec) == ScanPaths(GetPaths(spec).items, 1, <<>>)

reorganize_paths_by_tags(spec) ==
    IF GetPaths(spec).err # "none"
    THEN [err |-> GetPaths(spec).err, paths_by_tag |-> <<>>, new_paths |-> <<>>]
    ELSE [err |-> "none",
          paths_by_tag |-> Buckets(spec),
          new_paths |->
              EmitUnlisted(Buckets(spec), tag_order(spec),
                  EmitUntagged(Buckets(spec),
                      EmitDeclared(tag_order(spec), 1, Buckets(spec), <<>>)))]

----------------------------------------------------------------------------
(* main *)

Init(files) ==
    /\ input_file \in files
    /\ output_file = NotExisting
    /\ api_spec = EmptyDoc
    /\ paths_by_tag = <<>>
    /\ new_paths = <<>>
    /\ pc = "start"
    /\ error = "none"

Fail(e) == pc' = "failed" /\ error' = e

load_yaml_preserving_order ==
    /\ pc = "start"
    /\ input_file.wellFormed
    /\ api_spec' = input_file.doc
    /\ pc' = "loaded"
    /\ UNCHANGED <<input_file, output_file, paths_by_tag, new_paths, error>>

LoadParseError ==
    /\ pc = "start"
    /\ ~input_file.wellFormed
    /\ Fail("ParseError")
    /\ UNCHANGED <<input_file, output_file, api_spec, paths_by_tag, new_paths>>

MissingPaths ==
    /\ pc = "loaded"
    /\ GetPaths(api_spec).err # "none"
    /\ Fail(GetPaths(api_spec).err)
    /\ UNCHANGED <<input_file, output_file, api_spec, paths_by_tag, new_paths>>

Reorganize ==
    /\ pc = "loaded"
    /\ GetPaths(api_spec).err = "none"
    /\ LET r == reorganize_paths_by_tags(api_spec) IN
          /\ r.err = "none"
          /\ paths_by_tag' = r.paths_by_tag
          /\ new_paths' = r.new_paths
          /\ api_spec' = [api_spec EXCEPT !.hasPaths = TRUE, !.paths = r.new_paths]
    /\ pc' = "reorganized"
    /\ UNCHANGED <<input_file, output_file, error>>

OpenOutput ==
    /\ pc = "reorganized"
    /\ output_file' = Truncated
    /\ pc' = "opened"
    /\ UNCHANGED <<input_file, api_spec, paths_by_tag, new_paths, error>>

OpenOutputFail ==
    /\ pc = "reorganized"
    /\ Fail("IOError")
    /\ UNCHANGED <<input_file, output_file, api_spec, paths_by_tag, new_paths>>

\* yaml.dump(..., sort_keys=False): keys in the order of the mapping
Dumped(spec) == [state |-> "complete", tags |-> GetTags(spec), paths |-> spec.paths]

Dump ==
    /\ pc = "opened"
    /\ output_file' = Dumped(api_spec)
    /\ pc' = "done"
    /\ UNCHANGED <<input_file, api_spec, paths_by_tag, new_paths, error>>

DumpFail ==
    /\ pc = "opened"
    /\ \E n \in 0..Len(api_spec.paths) :
          output_file' = [state |-> "partial", tags |-> <<>>,
                          paths |-> SubSeq(api_spec.paths, 1, n)]
    /\ Fail("IOError")
    /\ UNCHANGED <<input_file, api_spec, paths_by_tag, new_paths>>

Next ==
    \/ load_yaml_preserving_order
    \/ LoadParseError
    \/ MissingPaths
    \/ Reorganize
    \/ OpenOutput
    \/ OpenOutputFail
    \/ Dump
    \/ DumpFail

\* documents with up to MaxPaths single-operation paths
Spec == Init(Files(SimpleItems, MaxPaths)) /\ [][Next]_vars

\* documents with one path whose PathItem has up to MaxOps entries
SpecScan == Init(Files(ScanItems, 1)) /\ [][Next]_vars

----------------------------------------------------------------------------
(* Properties *)

\* the `paths` of the loaded document, in the order of the input file
InputPaths == input_file.doc.paths

\* reorganize_paths_by_tags has just returned to main
Returned == pc = "reorganized"

Keys(mapping) == [k \in 1..Len(mapping) |-> mapping[k].path]

Entries(mapping) == {mapping[k] : k \in 1..Len(mapping)}

Positions == 1..Len(new_paths)

WithPaths(spec, items) == [spec EXCEPT !.hasPaths = TRUE, !.paths = items]

\* C1: the returned mapping has exactly the input's (path -> PathItem)
\* entries: no path added, dropped or duplicated, every PathItem unchanged.
C1_SameEntries ==
    Returned =>
        /\ Len(new_paths) = Len(InputPaths)
        /\ Entries(new_paths) = Entries(InputPaths)
        /\ \A i, j \in Positions : i # j => new_paths[i].path # new_paths[j].path

\* a run that moved paths and emitted an untagged and an undeclared group
C1_Witness ==
    /\ Returned
    /\ Len(new_paths) = MaxPaths
    /\ Keys(new_paths) # Keys(InputPaths)
    /\ \E i, j \in Positions :
          /\ BucketOf(new_paths[i].path_spec) = "untagged"
          /\ BucketOf(new_paths[j].path_spec) # "untagged"
          /\ ~InSeq(BucketOf(new_paths[j].path_spec), tag_order(input_file.doc))

\* C5: reorganizing the output again, with the same tags, gives the same
\* key order.
C5_Idempotent ==
    Returned =>
        Keys(reorganize_paths_by_tags(WithPaths(input_file.doc, new_paths)).new_paths)
            = Keys(new_paths)

\* a run that changed the key order and emitted two undeclared-tag groups
C5_Witness ==
    /\ Returned
    /\ Keys(new_paths) # Keys(InputPaths)
    /\ \E i, j \in Positions :
          /\ BucketOf(new_paths[i].path_spec) = "a"
          /\ BucketOf(new_paths[j].path_spec) = "b"
          /\ ~InSeq("a", tag_order(input_file.doc))
          /\ ~InSeq("b", tag_order(input_file.doc))

RECURSIVE DedupFrom(_, _, _)
DedupFrom(tags, i, acc) ==
    IF i > Len(tags) THEN acc
    ELSE DedupFrom(tags, i + 1,
                   IF InSeq(tags[i], acc) THEN acc ELSE Append(acc, tags[i]))

\* the tags list without the repeated occurrences of a name
WithoutRepeats(spec) == [spec EXCEPT !.tags = DedupFrom(spec.tags, 1, <<>>)]

\* C10: repeated names in `tags` change nothing: the output equals the
\* output for the tags list with only the first occurrence of each name.
C10_DuplicateTagsHarmless ==
    Returned =>
        reorganize_paths_by_tags(WithoutRepeats(input_file.doc)).new_paths = new_paths

\* a run whose tags repeat a name that has paths
C10_Witness ==
    /\ Returned
    /\ \E i, j \in 1..Len(tag_order(input_file.doc)) :
          /\ i < j
          /\ tag_order(input_file.doc)[i] = tag_order(input_file.doc)[j]
          /\ HasKey(paths_by_tag, tag_order(input_file.doc)[i])
    /\ Len(new_paths) >= 2

\* C8: without `paths` the function and the run fail with the missing-key
\* error (Python's KeyError), nothing is returned and nothing is written;
\* absent or empty `tags` is no error and gives the empty tag order.
C8_MissingPathsAborts ==
    /\ (input_file.wellFormed /\ ~input_file.doc.hasPaths) =>
          /\ reorganize_paths_by_tags(input_file.doc).err = "KeyError"
          /\ pc \in {"start", "loaded", "failed"}
          /\ pc = "failed" => error = "KeyError"
          /\ ~Returned
          /\ new_paths = <<>>
          /\ output_file = NotExisting
    /\ (input_file.wellFormed /\ input_file.doc.hasPaths
            /\ GetTags(input_file.doc) = <<>>) =>
          /\ tag_order(input_file.doc) = <<>>
          /\ reorganize_paths_by_tags(input_file.doc).err = "none"
          /\ error # "KeyError"

\* a run aborted for a document with tags and no paths
C8_Witness ==
    /\ pc = "failed"
    /\ error = "KeyError"
    /\ ~input_file.doc.hasPaths
    /\ input_file.doc.tags # <<>>

\* every reordering of the input's `paths`
Reorderings(items) ==
    {[k \in 1..Len(items) |-> items[f[k]]] : f \in Permutations(1..Len(items))}

RECURSIVE UnlistedFrom(_, _, _)
UnlistedFrom(buckets, k, order) ==
    IF k > Len(buckets) THEN <<>>
    ELSE (IF ~InSeq(buckets[k].tag, order) /\ buckets[k].tag # "untagged"
          THEN <<buckets[k].tag>> ELSE <<>>)
         \o UnlistedFrom(buckets, k + 1, order)

\* the undeclared bucket names in the order the scan first meets them
DiscoveryOrder(spec) == UnlistedFrom(Buckets(spec), 1, tag_order(spec))

\* C7 as stated: the key order of the input `paths` does not influence the
\* key order of the result.
C7_InputOrderIrrelevant ==
    Returned =>
        \A q \in Reorderings(InputPaths) :
            Keys(reorganize_paths_by_tags(WithPaths(input_file.doc, q)).new_paths)
                = Keys(new_paths)

\* C7 amended: the input key order matters only through the order in which
\* the buckets of undeclared tags are first met; reorderings that meet them
\* in the same order give the same result.
C7_OrderOnlyThroughDiscovery ==
    Returned =>
        \A q \in Reorderings(InputPaths) :
            DiscoveryOrder(WithPaths(input_file.doc, q)) = DiscoveryOrder(input_file.doc)
                => Keys(reorganize_paths_by_tags(WithPaths(input_file.doc, q)).new_paths)
                       = Keys(new_paths)

\* a run with two paths in one bucket, given out of order, and an
\* undeclared bucket
C7_Witness ==
    /\ Returned
    /\ DiscoveryOrder(input_file.doc) # <<>>
    /\ \E i, j \in 1..Len(InputPaths) :
          /\ i < j
          /\ BucketOf(InputPaths[i].path_spec) = BucketOf(InputPaths[j].path_spec)
          /\ LexLess(InputPaths[j].path, InputPaths[i].path)

\* the entries of a PathItem that are mappings with a non-empty `tags`
TaggedEntries(path_spec) ==
    {k \in 1..Len(path_spec) :
        /\ path_spec[k].operation.isDict
        /\ path_spec[k].operation.hasTags
        /\ path_spec[k].operation.tags # <<>>}

FirstTagged(path_spec) ==
    CHOOSE k \in TaggedEntries(path_spec) : \A m \in TaggedEntries(path_spec) : k <= m

\* the primary tag as the specification defines it: the first tag of the
\* first tagged entry, whatever string it is, and the sentinel otherwise
SpecPrimaryTag(path_spec) ==
    IF TaggedEntries(path_spec) = {} THEN "untagged"
    ELSE Head(path_spec[FirstTagged(path_spec)].operation.tags)

FirstIndex(x, s) == CHOOSE k \in 1..Len(s) : s[k] = x /\ \A m \in 1..(k - 1) : s[m] # x

\* C6 as stated: every path sits in the bucket named by the first tag of its
\* first tagged entry, and in the `untagged` bucket exactly when it has no
\* tagged entry.
C6_BucketIsPrimaryTag ==
    Returned =>
        \A b \in 1..Len(paths_by_tag) :
            \A e \in 1..Len(paths_by_tag[b].list) :
                LET path_spec == paths_by_tag[b].list[e].path_spec IN
                /\ paths_by_tag[b].tag = SpecPrimaryTag(path_spec)
                /\ paths_by_tag[b].tag = "untagged" <=> TaggedEntries(path_spec) = {}

\* C2 as stated: for distinct declared tags A before B, every path with
\* primary tag A precedes every path with primary tag B.
C2_TagOrderRespected ==
    Returned =>
        \A i, j \in Positions :
            LET A == SpecPrimaryTag(new_paths[i].path_spec)
                B == SpecPrimaryTag(new_paths[j].path_spec)
                order == tag_order(input_file.doc)
            IN  (/\ A # B
                 /\ InSeq(A, order)
                 /\ InSeq(B, order)
                 /\ FirstIndex(A, order) < FirstIndex(B, order)) => i < j

\* C3 as stated: the paths of one primary tag are contiguous in the output
\* and in ascending order of path-string.
C3_GroupsContiguousSorted ==
    Returned =>
        \A i, j \in Positions :
            (/\ i < j
             /\ SpecPrimaryTag(new_paths[i].path_spec)
                    = SpecPrimaryTag(new_paths[j].path_spec)) =>
                /\ LexLess(new_paths[i].path, new_paths[j].path)
                /\ \A m \in i..j : SpecPrimaryTag(new_paths[m].path_spec)
                                      = SpecPrimaryTag(new_paths[i].path_spec)

\* C4 as stated: a path without a tagged entry comes after every path of a
\* declared tag and before every path of an undeclared tag.
C4_UntaggedPlacement ==
    Returned =>
        \A i, j \in Positions :
            (/\ TaggedEntries(new_paths[i].path_spec) = {}
             /\ TaggedEntries(new_paths[j].path_spec) # {}) =>
                IF InSeq(SpecPrimaryTag(new_paths[j].path_spec), tag_order(input_file.doc))
                THEN j < i
                ELSE i < j

\* C9 as stated: the destination is touched only after the reorganization
\* succeeded, and a failed run leaves it untouched or complete.
C9_NoPartialOutput ==
    /\ pc \in {"start", "loaded", "reorganized"} => output_file = NotExisting
    /\ pc = "failed" => output_file.state \in {"absent", "complete"}
    /\ pc = "done" => output_file = Dumped(WithPaths(input_file.doc, new_paths))

====
